---------------------------- MODULE Spec2Model ----------------------------
(***************************************************************************)
(* Model of the open-sse core of 9router:                                  *)
(*   - utils/bypassHandler.js : the synthetic ("bypass") response, driven  *)
(*     through the translator chunk by chunk, flushed, then SSE-framed     *)
(*     (streaming) or merged into one object (non-streaming);              *)
(*   - executors/index.js     : the executor registry;                     *)
(*   - executors/antigravity.js : the Antigravity executor.                *)
(*                                                                         *)
(* translator/index.js (translateResponse, initState), translator/         *)
(* formats.js, utils/stream.js (formatSSE) and config/constants.js are not *)
(* among the source files; they are modelled from sections 3, 4.1 and 4.2  *)
(* of the specification.                                                   *)
(*                                                                         *)
(* Text is a sequence of tokens; string concatenation is \o.  An optional  *)
(* value (undefined / null in the source) is a sequence of length <= 1.    *)
(***************************************************************************)
EXTENDS Integers, Sequences, FiniteSets, TLC

VARIABLES
    pc,               \* position inside handleBypassRequest and its callees
    reqNo,            \* number of bypass calls started so far
    body,             \* the request body of the current call
    mode,             \* "stream" | "nonstream" : which builder runs
    sourceFormat,     \* detectFormat(body)
    model,            \* model argument
    now,              \* Date.now() read by createOpenAIResponse
    openaiChunks,     \* the canonical chunks being translated
    idx,              \* position of the for..of loop over openaiChunks
    state,            \* the translation state object of this response (Some/None)
    translatedChunks, \* translatedChunks (SSE frames) or allTranslated (events)
    flushed,          \* the list returned by the flush call
    result,           \* the value returned by the call (Some/None)
    log,              \* calls made on the translator by this response
    nstates,          \* state objects allocated by initState so far
    usedStates,       \* ids of the state objects of earlier responses
    chunks,           \* argument list of a stand-alone mergeChunksToResponse call
    merged,           \* what that call returned (Some/None)
    defaultCache,     \* executors/index.js: Map provider -> DefaultExecutor
    constructed,      \* providers of the DefaultExecutor objects constructed so far
    lastProvider,     \* argument of the latest getExecutor call (Some/None)
    lastExecutor,     \* what the latest getExecutor call returned (Some/None)
    config,           \* executors/antigravity.js: this.config of the executor
    creds,            \* the credential set the caller passes to the executor
    reqBody,          \* the request body the caller passes to transformRequest
    calls,            \* the refreshCredentials calls, each with its position
    tokenRequests,    \* requests issued to the OAuth token endpoint
    lastCall          \* latest buildUrl / buildHeaders / transformRequest call (Some/None)

vars == <<pc, reqNo, body, mode, sourceFormat, model, now, openaiChunks, idx,
          state, translatedChunks, flushed, result, log, nstates, usedStates,
          chunks, merged, defaultCache, constructed, lastProvider, lastExecutor,
          config, creds, reqBody, calls, tokenRequests, lastCall>>

bypassVars == <<pc, reqNo, body, mode, sourceFormat, model, now, openaiChunks,
                idx, state, translatedChunks, flushed, result, log, nstates,
                usedStates>>

mergeVars == <<chunks, merged>>

agVars == <<config, creds, reqBody, calls, tokenRequests, lastCall>>

execVars == <<defaultCache, constructed, lastProvider, lastExecutor, agVars>>

---------------------------------------------------------------------------
(* Bounds of the model *)

\* bypass calls made in one behaviour
MaxRequests == 2
\* content deltas that follow the role delta in a generated delta sequence
MaxContentDeltas == 2
\* malformed deltas inserted into a generated delta sequence
MaxMalformed == 1
\* longest event list handed to a stand-alone mergeChunksToResponse call
MaxEvents == 3
\* refreshCredentials calls that may be in flight together
MaxCalls == 2

---------------------------------------------------------------------------
(* Optional values *)

None == <<>>

Some(x) == <<x>>

\* JS truthiness of an optional value that is an object when present
Truthy(o) == o # None

---------------------------------------------------------------------------
(* Formats, text, usage *)

OPENAI == "openai"

CLAUDE == "claude"

GEMINI == "gemini"

FORMATS == {OPENAI, CLAUDE, GEMINI}

\* tokens of generated content deltas
Tokens == {"a", "b"}

\* const text = "CLI Command Execution: Clear Terminal"
BypassText == <<"CLI Command Execution: Clear Terminal">>

Models == {"m1"}

\* instants Date.now() may return (milliseconds)
Clock == {1999, 2000}

BypassUsage == [prompt_tokens |-> 1, completion_tokens |-> 1, total_tokens |-> 2]

---------------------------------------------------------------------------
(* bypassHandler.js: the synthetic canonical response and its chunks *)

createOpenAIResponse(m, t) ==
    [ id      |-> <<"chatcmpl-", t>>,
      object  |-> "chat.completion",
      created |-> t \div 1000,
      model   |-> m,
      choices |-> << [ index |-> 0,
                       message |-> [role |-> "assistant", content |-> BypassText],
                       finish_reason |-> Some("stop") ] >>,
      usage   |-> Some(BypassUsage) ]

\* a chat.completion.chunk
Chunk(id, created, m, delta, finish, usage) ==
    [ id      |-> id,
      object  |-> "chat.completion.chunk",
      created |-> created,
      model   |-> m,
      choices |-> << [index |-> 0, delta |-> delta, finish_reason |-> finish] >>,
      usage   |-> usage ]

createOpenAIStreamingChunks_NoFinish(completeResponse) ==
    << Chunk(completeResponse.id, completeResponse.created, completeResponse.model,
             [role |-> Some("assistant"),
              content |-> completeResponse.choices[1].message.content],
             None, None) >>

createOpenAIStreamingChunks(completeResponse) ==
    LET content == completeResponse.choices[1].message.content
    IN << Chunk(completeResponse.id, completeResponse.created, completeResponse.model,
                [role |-> Some("assistant"), content |-> content],
                None, None),
          Chunk(completeResponse.id, completeResponse.created, completeResponse.model,
                [role |-> None, content |-> <<>>],
                Some("stop"), completeResponse.usage) >>

---------------------------------------------------------------------------
(* translator/index.js, modelled from sections 3 and 4.1 of the specification.
   The source format is always the canonical (OpenAI) one here.  Tool-call
   deltas are not produced by the bypass handler and are left out: every
   stream has the single text block of index 0. *)

\* initState(format); sid identifies the object that is returned
initState(format, sid) ==
    [ sid          |-> sid,
      format       |-> format,
      model        |-> "",
      messageId    |-> None,
      blockIndex   |-> 0,
      blockOpen    |-> FALSE,
      textLength   |-> 0,
      finishReason |-> None,
      usage        |-> None,
      started      |-> FALSE,
      finished     |-> FALSE ]

\* "no choice/candidate entry"
Malformed(chunk) == Len(chunk.choices) = 0

\* canonical finish reason -> Claude stop_reason
ClaudeStopReason(fr) ==
    CASE fr = "stop"       -> "end_turn"
      [] fr = "length"     -> "max_tokens"
      [] fr = "tool_calls" -> "tool_use"
      [] OTHER             -> "end_turn"

\* canonical finish reason -> Gemini finishReason
GeminiFinishReason(fr) ==
    CASE fr = "stop"   -> "STOP"
      [] fr = "length" -> "MAX_TOKENS"
      [] OTHER         -> "STOP"

ClaudeUsage(u) ==
    IF u = None THEN None
    ELSE Some([input_tokens |-> u[1].prompt_tokens,
               output_tokens |-> u[1].completion_tokens])

GeminiUsage(u) ==
    IF u = None THEN None
    ELSE Some([promptTokenCount |-> u[1].prompt_tokens,
               candidatesTokenCount |-> u[1].completion_tokens,
               totalTokenCount |-> u[1].total_tokens])

MessageStart(st, id) ==
    [ type    |-> "message_start",
      message |-> [ id |-> id, type |-> "message", role |-> "assistant",
                    model |-> st.model, content |-> <<>>, stop_reason |-> None,
                    usage |-> Some([input_tokens |-> 0, output_tokens |-> 0]) ] ]

ContentBlockStart(i) ==
    [type |-> "content_block_start", index |-> i,
     content_block |-> [type |-> "text", text |-> <<>>]]

ContentBlockDelta(i, text) ==
    [type |-> "content_block_delta", index |-> i,
     delta |-> [type |-> "text_delta", text |-> text]]

ContentBlockStop(i) == [type |-> "content_block_stop", index |-> i]

MessageDelta(fr, u) ==
    [type |-> "message_delta", delta |-> [stop_reason |-> ClaudeStopReason(fr)],
     usage |-> ClaudeUsage(u)]

MessageStop == [type |-> "message_stop"]

GeminiChunk(st, id, text, fr, u) ==
    [ candidates    |-> << [ content |-> [role |-> "model", parts |-> <<[text |-> text]>>],
                             finishReason |-> IF fr = None THEN None
                                              ELSE Some(GeminiFinishReason(fr[1])),
                             index |-> 0 ] >>,
      usageMetadata |-> GeminiUsage(u),
      modelVersion  |-> st.model,
      responseId    |-> id ]

\* the closing chunk of a chunk protocol when the stream ended without one
OpenAIStopChunk(st) ==
    Chunk(st.messageId[1], 0, st.model,
          [role |-> None, content |-> <<>>], Some("stop"), st.usage)

\* translate(_, target, null, state): the flush
Flush(target, st) ==
    IF st.finished \/ ~st.started
    THEN [out |-> <<>>, state |-> st]
    ELSE LET fr == IF st.finishReason = None THEN "stop" ELSE st.finishReason[1]
             closing ==
                 CASE target = CLAUDE ->
                        (IF st.blockOpen THEN <<ContentBlockStop(st.blockIndex)>> ELSE <<>>)
                        \o <<MessageDelta(fr, st.usage), MessageStop>>
                   [] target = GEMINI ->
                        <<GeminiChunk(st, st.messageId[1], <<>>, Some(fr), st.usage)>>
                   [] OTHER -> <<OpenAIStopChunk(st)>>
         IN [out   |-> closing,
             state |-> [st EXCEPT !.blockOpen = FALSE, !.finished = TRUE,
                                  !.finishReason = Some(fr)]]

\* translate(_, target, delta, state) for a real delta
Translate(target, chunk, st) ==
    IF Malformed(chunk) \/ st.finished
    THEN [out |-> <<>>, state |-> st]
    ELSE
    LET choice  == chunk.choices[1]
        delta   == choice.delta
        starts  == ~st.started /\ delta.role # None
        live    == st.started \/ starts
        text    == IF live THEN delta.content ELSE <<>>
        ends    == live /\ choice.finish_reason # None
        usage   == IF chunk.usage # None THEN chunk.usage ELSE st.usage
        st1     == [st EXCEPT
                      !.started      = live,
                      !.messageId    = IF starts THEN Some(chunk.id) ELSE @,
                      !.blockOpen    = live /\ ~ends,
                      !.textLength   = @ + Len(text),
                      !.finishReason = IF ends THEN choice.finish_reason ELSE @,
                      !.usage        = IF live THEN usage ELSE @,
                      !.finished     = ends]
        claude  ==
            (IF starts THEN <<MessageStart(st, chunk.id), ContentBlockStart(st.blockIndex)>>
                       ELSE <<>>)
            \o (IF text # <<>> THEN <<ContentBlockDelta(st.blockIndex, text)>> ELSE <<>>)
            \o (IF ends THEN <<ContentBlockStop(st.blockIndex),
                               MessageDelta(choice.finish_reason[1], usage), MessageStop>>
                        ELSE <<>>)
        gemini  ==
            IF live
            THEN <<GeminiChunk(st, chunk.id, text,
                               IF ends THEN choice.finish_reason ELSE None,
                               IF ends THEN usage ELSE None)>>
            ELSE <<>>
    IN [out   |-> CASE target = CLAUDE -> claude
                    [] target = GEMINI -> gemini
                    [] OTHER           -> <<chunk>>,
        state |-> st1]

\* translateResponse(FORMATS.OPENAI, targetFormat, chunk, state); chunk is
\* Some(delta) or None (null: the flush)
translateResponse(targetFormat, chunk, st) ==
    IF chunk = None THEN Flush(targetFormat, st)
    ELSE Translate(targetFormat, chunk[1], st)

---------------------------------------------------------------------------
(* utils/stream.js, modelled from section 4.2: one frame per event.  A frame
   is the optional "event:" line and the "data:" line; joining frames is
   concatenation. *)

formatSSE(item, format) ==
    [ event |-> IF format = CLAUDE /\ "type" \in DOMAIN item THEN Some(item.type) ELSE None,
      data  |-> item ]

\* the target protocols whose wire format ends with a "[DONE]" line: the
\* OpenAI chunk protocol; Claude streams end with message_stop and Gemini
\* streams with their last chunk
HasSentinel(format) == format = OPENAI

\* "data: [DONE]\n\n"
DONE == [event |-> None, data |-> [sentinel |-> "[DONE]"]]

---------------------------------------------------------------------------
(* bypassHandler.js: handleBypassRequest, lines 16-56 *)

\* config/constants.js: the configured skip patterns
SKIP_PATTERNS == << <<"skip", "pattern">> >>

StringContent(text) == [kind |-> "string", text |-> text]

ArrayContent(parts) == [kind |-> "array", parts |-> parts]

RECURSIVE JoinTexts(_)
\* texts.join(" ")
JoinTexts(texts) ==
    IF Len(texts) = 0 THEN <<>> ELSE Head(texts) \o JoinTexts(Tail(texts))

RECURSIVE TextParts(_)
\* content.filter(c => c.type === "text").map(c => c.text)
TextParts(parts) ==
    IF Len(parts) = 0 THEN <<>>
    ELSE (IF Head(parts).type = "text" THEN <<Head(parts).text>> ELSE <<>>)
         \o TextParts(Tail(parts))

getText(content) ==
    CASE content.kind = "string" -> content.text
      [] content.kind = "array"  -> JoinTexts(TextParts(content.parts))
      [] OTHER                   -> <<>>

\* userText.includes(p)
Includes(text, p) ==
    \E i \in 0..(Len(text) - Len(p)) : SubSeq(text, i + 1, i + Len(p)) = p

RECURSIVE UserTexts(_)
\* messages.filter(m => m.role === "user").map(m => getText(m.content))
UserTexts(messages) ==
    IF Len(messages) = 0 THEN <<>>
    ELSE (IF Head(messages).role = "user" THEN <<getText(Head(messages).content)>>
          ELSE <<>>)
         \o UserTexts(Tail(messages))

RECURSIVE AllTexts(_)
\* messages.map(m => getText(m.content))
AllTexts(messages) ==
    IF Len(messages) = 0 THEN <<>>
    ELSE <<getText(Head(messages).content)>> \o AllTexts(Tail(messages))

\* shouldBypass with the skip patterns matched against every message's text
shouldBypass_AllRoles(messages) ==
    LET firstText == getText(messages[1].content)
        userText  == JoinTexts(AllTexts(messages))
    IN \/ firstText = <<"Warmup">>
       \/ /\ Len(SKIP_PATTERNS) > 0
          /\ \E k \in 1..Len(SKIP_PATTERNS) : Includes(userText, SKIP_PATTERNS[k])

\* lines 29-56: the value of shouldBypass when the function reaches line 56
shouldBypass(messages) ==
    LET firstText == getText(messages[1].content)
        userText  == JoinTexts(UserTexts(messages))
    IN \/ firstText = <<"Warmup">>
       \/ /\ Len(SKIP_PATTERNS) > 0
          /\ \E k \in 1..Len(SKIP_PATTERNS) : Includes(userText, SKIP_PATTERNS[k])

\* messages a request may carry
Msgs ==
    { [role |-> "user",      content |-> StringContent(<<"Warmup">>)],
      [role |-> "user",      content |-> StringContent(<<"hello">>)],
      [role |-> "user",      content |-> StringContent(<<"a", "skip", "pattern">>)],
      [role |-> "system",    content |-> StringContent(<<"skip", "pattern">>)],
      [role |-> "assistant", content |-> StringContent(<<"skip", "pattern">>)],
      [role |-> "user",      content |-> ArrayContent(<< [type |-> "image", text |-> <<>>],
                                                         [type |-> "text", text |-> <<"Warmup">>] >>)] }

\* message lists of a request: empty, one message, two messages
MessageLists ==
    {<<>>} \cup { <<a>> : a \in Msgs } \cup { <<a, b>> : a \in Msgs, b \in Msgs }

\* body.stream: true, false or absent
Bodies == [messages : MessageLists, stream : {Some(TRUE), Some(FALSE), None}]

---------------------------------------------------------------------------
(* bypassHandler.js: mergeChunksToResponse, lines 205-234 *)

TypeOf(c) == IF "type" \in DOMAIN c THEN c.type ELSE "undefined"

RECURSIVE Find(_, _)
\* chunks.find(c => c.type === ty)
Find(cs, ty) ==
    IF Len(cs) = 0 THEN None
    ELSE IF TypeOf(Head(cs)) = ty THEN Some(Head(cs)) ELSE Find(Tail(cs), ty)

\* o?.f for an optional object o whose field f is optional
Field(o, f) == IF o # None /\ f \in DOMAIN o[1] THEN o[1][f] ELSE None

mergeChunksToResponse(cs, format, t) ==
    IF Len(cs) = 0 THEN createOpenAIResponse("unknown", t)
    ELSE
    LET finalChunk   == cs[Len(cs)]
        messageStop  == Find(cs, "message_stop")
        messageDelta == Find(cs, "message_delta")
        messageStart == Find(cs, "message_start")
    IN IF format = CLAUDE /\ messageStop # None
          /\ messageStart # None /\ "message" \in DOMAIN messageStart[1]
       THEN IF Truthy(Field(messageDelta, "usage"))
            THEN [messageStart[1].message EXCEPT !.usage = messageDelta[1].usage]
            ELSE messageStart[1].message
       ELSE finalChunk

---------------------------------------------------------------------------
(* Generated delta sequences: role delta, content deltas, optional finish
   delta, with malformed deltas inserted *)

GenId == <<"chatcmpl-", 0>>

RoleDeltas ==
    { Chunk(GenId, 0, "m1", [role |-> Some("assistant"), content |-> c], None, None) :
        c \in {<<>>} \cup { <<t>> : t \in Tokens } }

ContentDeltas ==
    { Chunk(GenId, 0, "m1", [role |-> None, content |-> <<t>>], None, None) :
        t \in Tokens }

FinishDeltas ==
    { Chunk(GenId, 0, "m1", [role |-> None, content |-> <<>>], Some("stop"),
            Some(BypassUsage)),
      Chunk(GenId, 0, "m1", [role |-> None, content |-> <<>>], Some("length"), None) }

MalformedDelta ==
    [ id |-> GenId, object |-> "chat.completion.chunk", created |-> 0,
      model |-> "m1", choices |-> <<>>, usage |-> None ]

CanonicalSeqs ==
    { <<r>> \o cs \o f :
        r \in RoleDeltas,
        cs \in UNION { [1..n -> ContentDeltas] : n \in 0..MaxContentDeltas },
        f \in {<<>>} \cup { <<d>> : d \in FinishDeltas } }

RECURSIVE InsertMalformed(_, _)
InsertMalformed(S, k) ==
    IF k = 0 THEN S
    ELSE S \cup InsertMalformed(
                  UNION { { SubSeq(q, 1, i) \o <<MalformedDelta>> \o SubSeq(q, i + 1, Len(q)) :
                              i \in 0..Len(q) } : q \in S }, k - 1)

DeltaSeqs == InsertMalformed(CanonicalSeqs, MaxMalformed)

---------------------------------------------------------------------------
(* State *)

NullResult == [null |-> TRUE]

JsonResponse(obj) ==
    [ success  |-> TRUE,
      response |-> [ body    |-> obj,
                     headers |-> [ContentType |-> "application/json",
                                  AccessControlAllowOrigin |-> "*"] ] ]

StreamResponse(frames) ==
    [ success  |-> TRUE,
      response |-> [ body    |-> frames,
                     headers |-> [ContentType |-> "text/event-stream",
                                  CacheControl |-> "no-cache",
                                  Connection |-> "keep-alive",
                                  AccessControlAllowOrigin |-> "*"] ] ]

InitBypass ==
    /\ pc = "idle"
    /\ reqNo = 0
    /\ body = None
    /\ mode = "none"
    /\ sourceFormat = OPENAI
    /\ model = "m1"
    /\ now = 0
    /\ openaiChunks = <<>>
    /\ idx = 0
    /\ state = None
    /\ translatedChunks = <<>>
    /\ flushed = <<>>
    /\ result = None
    /\ log = <<>>
    /\ nstates = 0
    /\ usedStates = {}

InitMerge ==
    /\ chunks = [list |-> <<>>, format |-> OPENAI, now |-> 0]
    /\ merged = None

---------------------------------------------------------------------------
(* executors/antigravity.js: the inputs of the Antigravity executor *)

\* obj[k] of a JavaScript object: undefined when the key is absent
Get(obj, k) == IF k \in DOMAIN obj THEN obj[k] ELSE None

\* a || b
Or(a, b) == IF Truthy(a) THEN a ELSE b

\* `${x}` of a template literal: undefined prints as "undefined"
ToStr(x) == IF Truthy(x) THEN x[1] ELSE "undefined"

\* this.config of the executor: the base-URL pool may be a list (baseUrls),
\* a single URL (baseUrl), empty, or missing
Configs ==
    { [baseUrls |-> Some(<<"u1", "u2">>), baseUrl |-> None, userAgent |-> None,
       clientId |-> "cid", clientSecret |-> "sec"],
      [baseUrls |-> None, baseUrl |-> Some("u1"), userAgent |-> Some("ua"),
       clientId |-> "cid", clientSecret |-> "sec"],
      [baseUrls |-> Some(<<>>), baseUrl |-> None, userAgent |-> None,
       clientId |-> "cid", clientSecret |-> "sec"],
      [baseUrls |-> None, baseUrl |-> None, userAgent |-> None,
       clientId |-> "cid", clientSecret |-> "sec"] }

\* BaseExecutor.getBaseUrls()
getBaseUrls(cfg) ==
    IF Truthy(cfg.baseUrls) THEN cfg.baseUrls[1]
    ELSE IF Truthy(cfg.baseUrl) THEN <<cfg.baseUrl[1]>>
    ELSE <<>>

\* credential sets: { accessToken, refreshToken?, projectId?, sessionId?, expiresIn? }
CredentialSets ==
    { [accessToken |-> Some("at0"), refreshToken |-> Some("rt0"),
       projectId |-> Some("p0"), sessionId |-> Some("s0"), expiresIn |-> Some(10)],
      [accessToken |-> Some("at0"), refreshToken |-> Some("rt0"),
       projectId |-> None, sessionId |-> None, expiresIn |-> None],
      [accessToken |-> Some("at0"), refreshToken |-> None,
       projectId |-> Some("p0"), sessionId |-> Some("s0"), expiresIn |-> Some(10)],
      [accessToken |-> Some("at0"), refreshToken |-> None,
       projectId |-> None, sessionId |-> None, expiresIn |-> None] }

\* a tool-invocation configuration supplied by the caller
CallerToolConfig == [functionCallingConfig |-> [mode |-> "AUTO"]]

\* request bodies: objects whose keys may be absent; every value is Some(v)
AgBodies ==
    { [request |-> Some([contents |-> Some("c"), tools |-> Some(<<"t1">>),
                         toolConfig |-> Some(CallerToolConfig),
                         safetySettings |-> Some("ss"), sessionId |-> Some("sb")]),
       model |-> Some("old"), project |-> Some("pOld"), extra |-> Some("x")],
      [request |-> Some([contents |-> Some("c"), tools |-> Some(<<>>),
                         toolConfig |-> Some(CallerToolConfig),
                         safetySettings |-> Some("ss")]),
       extra |-> Some("x")],
      [request |-> Some([contents |-> Some("c")])],
      [extra |-> Some("x")],
      [request |-> Some([contents |-> Some("c"), tools |-> Some(<<"t1", "t2">>)]),
       requestId |-> Some(<<"agent-", "old">>)],
      [request |-> Some([toolConfig |-> Some(CallerToolConfig),
                         sessionId |-> Some("sb"), generationConfig |-> Some("g")]),
       userAgent |-> Some("other")] }

\* urlIndex arguments: omitted, negative, in range, past the end
UrlIndexes == {None, Some(-1), Some(0), Some(1), Some(2)}

\* what the random source can yield for the generated identifiers
GeneratedProjectIds == {"gp1"}
GeneratedSessionIds == {"-gs1"}
GeneratedUuids == {"uuid1"}

\* JSON bodies the token endpoint may answer with
TokenResponses ==
    { [access_token |-> Some("at1"), refresh_token |-> Some("rt1"), expires_in |-> Some(3600)],
      [access_token |-> Some("at1"), refresh_token |-> None, expires_in |-> Some(3600)] }

\* a refreshCredentials call that has not been made yet
IdleCall ==
    [pc |-> "idle", outcome |-> "pending", value |-> None, cause |-> "none",
     credentials |-> None, tokens |-> None]

InitAg ==
    /\ config = CHOOSE cfg \in Configs : cfg.baseUrls = Some(<<"u1", "u2">>)
    /\ creds = CHOOSE cr \in CredentialSets : Truthy(cr.refreshToken) /\ Truthy(cr.projectId)
    /\ reqBody = [extra |-> Some("x")]
    /\ calls = [i \in 1..MaxCalls |-> IdleCall]
    /\ tokenRequests = {}
    /\ lastCall = None

InitExec ==
    /\ defaultCache = {}
    /\ constructed = <<>>
    /\ lastProvider = None
    /\ lastExecutor = None

Init == InitBypass /\ InitMerge /\ InitExec /\ InitAg

---------------------------------------------------------------------------
(* bypassHandler.js: createStreamingResponse and createNonStreamingResponse,
   one action per step *)

\* BeginTranslation with one state object kept for every response
BeginTranslation_SharedState(fmt, m, md, cs) ==
    /\ sourceFormat' = fmt
    /\ model' = m
    /\ mode' = md
    /\ openaiChunks' = cs
    /\ state' = IF state = None
                THEN Some([initState(fmt, nstates + 1) EXCEPT !.model = m])
                ELSE state
    /\ nstates' = IF state = None THEN nstates + 1 ELSE nstates
    /\ usedStates' = usedStates \cup (IF state = None THEN {} ELSE {state[1].sid})
    /\ log' = IF state = None
              THEN << [op |-> "initState", sid |-> nstates + 1, arg |-> 0, out |-> <<>>] >>
              ELSE <<>>
    /\ idx' = 1
    /\ translatedChunks' = <<>>
    /\ flushed' = <<>>
    /\ result' = None
    /\ pc' = "loop"

\* lines 158-166 and 119-124: the state of this response, its chunks, the
\* empty output list
BeginTranslation(fmt, m, md, cs) ==
    /\ sourceFormat' = fmt
    /\ model' = m
    /\ mode' = md
    /\ openaiChunks' = cs
    /\ state' = Some([initState(fmt, nstates + 1) EXCEPT !.model = m])
    /\ nstates' = nstates + 1
    /\ usedStates' = usedStates \cup (IF state = None THEN {} ELSE {state[1].sid})
    /\ log' = << [op |-> "initState", sid |-> nstates + 1, arg |-> 0, out |-> <<>>] >>
    /\ idx' = 1
    /\ translatedChunks' = <<>>
    /\ flushed' = <<>>
    /\ result' = None
    /\ pc' = "loop"

\* a call that returns at once with value v
ReturnAtOnce(fmt, m, md, v) ==
    /\ sourceFormat' = fmt
    /\ model' = m
    /\ mode' = md
    /\ openaiChunks' = <<>>
    /\ usedStates' = usedStates \cup (IF state = None THEN {} ELSE {state[1].sid})
    /\ state' = None
    /\ log' = <<>>
    /\ idx' = 0
    /\ translatedChunks' = <<>>
    /\ flushed' = <<>>
    /\ result' = Some(v)
    /\ pc' = "returned"
    /\ UNCHANGED nstates

\* handleBypassRequest(body, model), to the first translator call
HandleBypassRequest ==
    /\ pc \in {"idle", "returned"}
    /\ reqNo < MaxRequests
    /\ \E b \in Bodies, m \in Models, fmt \in FORMATS, t \in Clock :
         /\ body' = Some(b)
         /\ now' = t
         /\ reqNo' = reqNo + 1
         /\ IF Len(b.messages) = 0 \/ ~shouldBypass(b.messages)
            THEN ReturnAtOnce(fmt, m, "none", NullResult)
            ELSE IF b.stream # Some(FALSE)
            THEN BeginTranslation(fmt, m, "stream",
                                  createOpenAIStreamingChunks(createOpenAIResponse(m, t)))
            ELSE IF fmt = OPENAI
            THEN ReturnAtOnce(fmt, m, "nonstream",
                              JsonResponse(createOpenAIResponse(m, t)))
            ELSE BeginTranslation(fmt, m, "nonstream",
                                  createOpenAIStreamingChunks(createOpenAIResponse(m, t)))
    /\ UNCHANGED <<mergeVars, execVars>>

\* lines 172 / 129: what is pushed for one translated item
Pushed(item) == IF mode = "stream" THEN formatSSE(item, sourceFormat) ELSE item

PushAll(items) == [k \in 1..Len(items) |-> Pushed(items[k])]

\* TranslateStep that does not keep what the call did to the state
TranslateStep_StateDropped ==
    /\ pc = "loop"
    /\ idx <= Len(openaiChunks)
    /\ LET r == translateResponse(sourceFormat, Some(openaiChunks[idx]), state[1])
       IN /\ translatedChunks' = translatedChunks \o PushAll(r.out)
          /\ log' = Append(log, [op |-> "translateResponse", sid |-> state[1].sid,
                                 arg |-> idx, out |-> r.out])
    /\ idx' = idx + 1
    /\ UNCHANGED <<pc, reqNo, body, mode, sourceFormat, model, now, openaiChunks, state,
                   flushed, result, nstates, usedStates, mergeVars, execVars>>

\* TranslateStep that leaves the loop at the first chunk that translates to nothing
TranslateStep_StopOnEmpty ==
    /\ pc = "loop"
    /\ idx <= Len(openaiChunks)
    /\ LET r == translateResponse(sourceFormat, Some(openaiChunks[idx]), state[1])
       IN /\ state' = Some(r.state)
          /\ translatedChunks' = translatedChunks \o PushAll(r.out)
          /\ log' = Append(log, [op |-> "translateResponse", sid |-> state[1].sid,
                                 arg |-> idx, out |-> r.out])
          /\ idx' = IF r.out = <<>> THEN Len(openaiChunks) + 1 ELSE idx + 1
    /\ UNCHANGED <<pc, reqNo, body, mode, sourceFormat, model, now, openaiChunks,
                   flushed, result, nstates, usedStates, mergeVars, execVars>>

\* lines 168-175 and 126-131: one iteration of the loop over openaiChunks
TranslateStep ==
    /\ pc = "loop"
    /\ idx <= Len(openaiChunks)
    /\ LET r == translateResponse(sourceFormat, Some(openaiChunks[idx]), state[1])
       IN /\ state' = Some(r.state)
          /\ translatedChunks' = translatedChunks \o PushAll(r.out)
          /\ log' = Append(log, [op |-> "translateResponse", sid |-> state[1].sid,
                                 arg |-> idx, out |-> r.out])
    /\ idx' = idx + 1
    /\ UNCHANGED <<pc, reqNo, body, mode, sourceFormat, model, now, openaiChunks,
                   flushed, result, nstates, usedStates, mergeVars, execVars>>

\* FlushStep without the flush call
FlushStep_Skipped ==
    /\ pc = "loop"
    /\ idx > Len(openaiChunks)
    /\ flushed' = <<>>
    /\ pc' = "flushed"
    /\ UNCHANGED <<reqNo, body, mode, sourceFormat, model, now, openaiChunks, idx, state,
                   translatedChunks, log, result, nstates, usedStates, mergeVars, execVars>>

\* lines 177-183 and 133-137: the flush
FlushStep ==
    /\ pc = "loop"
    /\ idx > Len(openaiChunks)
    /\ LET r == translateResponse(sourceFormat, None, state[1])
       IN /\ state' = Some(r.state)
          /\ flushed' = r.out
          /\ translatedChunks' = translatedChunks \o PushAll(r.out)
          /\ log' = Append(log, [op |-> "translateResponse", sid |-> state[1].sid,
                                 arg |-> 0, out |-> r.out])
    /\ pc' = "flushed"
    /\ UNCHANGED <<reqNo, body, mode, sourceFormat, model, now, openaiChunks, idx,
                   result, nstates, usedStates, mergeVars, execVars>>

\* lines 185-198: the sentinel and the streaming Response
StreamReturn ==
    /\ pc = "flushed"
    /\ mode = "stream"
    /\ translatedChunks' = Append(translatedChunks, DONE)
    /\ result' = Some(StreamResponse(translatedChunks'))
    /\ pc' = "returned"
    /\ UNCHANGED <<reqNo, body, mode, sourceFormat, model, now, openaiChunks, idx,
                   state, flushed, log, nstates, usedStates, mergeVars, execVars>>

\* lines 139-150: the merge and the JSON Response
NonStreamReturn ==
    /\ pc = "flushed"
    /\ mode = "nonstream"
    /\ result' = Some(JsonResponse(mergeChunksToResponse(translatedChunks, sourceFormat, now)))
    /\ pc' = "returned"
    /\ UNCHANGED <<reqNo, body, mode, sourceFormat, model, now, openaiChunks, idx,
                   state, translatedChunks, flushed, log, nstates, usedStates,
                   mergeVars, execVars>>

Next ==
    \/ HandleBypassRequest
    \/ TranslateStep
    \/ FlushStep
    \/ StreamReturn
    \/ NonStreamReturn

Spec == Init /\ [][Next]_vars

---------------------------------------------------------------------------
(* The same builders, lines 165-190 and 126-140, run over generated delta
   sequences *)

TranslateStream ==
    /\ pc = "idle"
    /\ \E fmt \in FORMATS, md \in {"stream", "nonstream"}, cs \in DeltaSeqs :
         /\ ~(md = "nonstream" /\ fmt = OPENAI)
         /\ BeginTranslation(fmt, "m1", md, cs)
    /\ reqNo' = reqNo + 1
    /\ UNCHANGED <<body, now, mergeVars, execVars>>

NextEngine ==
    \/ TranslateStream
    \/ TranslateStep
    \/ FlushStep
    \/ StreamReturn
    \/ NonStreamReturn

SpecEngine == Init /\ [][NextEngine]_vars

---------------------------------------------------------------------------
(* mergeChunksToResponse called on its own, on any short event list *)

Events ==
    { MessageStart(initState(CLAUDE, 0), GenId), ContentBlockDelta(0, <<"a">>),
      MessageDelta("stop", Some(BypassUsage)), MessageDelta("stop", None), MessageStop,
      GeminiChunk(initState(GEMINI, 0), GenId, <<"a">>, Some("stop"), Some(BypassUsage)) }

EventLists == UNION { [1..n -> Events] : n \in 0..MaxEvents }

\* any event list, any format, any instant
InitMergeCall ==
    /\ InitBypass
    /\ InitExec
    /\ InitAg
    /\ chunks \in [list : EventLists, format : FORMATS, now : Clock]
    /\ merged = None

MergeChunks ==
    /\ merged = None
    /\ merged' = Some(mergeChunksToResponse(chunks.list, chunks.format, chunks.now))
    /\ UNCHANGED <<chunks, bypassVars, execVars>>

SpecMerge == InitMergeCall /\ [][MergeChunks]_vars

---------------------------------------------------------------------------
(* executors/index.js *)

\* const executors = { antigravity: ..., "gemini-cli": ..., github: ... }
executors ==
    [ p \in {"antigravity", "gemini-cli", "github"} |->
        CASE p = "antigravity" -> [class |-> "AntigravityExecutor", provider |-> p, oid |-> 0]
          [] p = "gemini-cli"  -> [class |-> "GeminiCLIExecutor", provider |-> p, oid |-> 0]
          [] OTHER             -> [class |-> "GithubExecutor", provider |-> p, oid |-> 0] ]

\* executors is an object literal: a key it does not own is looked up on
\* Object.prototype, whose members are truthy
ObjectPrototypeKeys == {"constructor", "toString"}

\* executors[provider]
executorsAt(provider) ==
    IF provider \in DOMAIN executors THEN Some(executors[provider])
    ELSE IF provider \in ObjectPrototypeKeys
    THEN Some([class |-> "Object.prototype", provider |-> provider, oid |-> 0])
    ELSE None

\* identifiers getExecutor is called with
Providers ==
    {"antigravity", "gemini-cli", "github", "openai", "openrouter", "custom",
     "constructor", "toString"}

\* defaultCache.has(provider)
CacheHas(cache, provider) == \E e \in cache : e.provider = provider

\* defaultCache.get(provider)
CacheGet(cache, provider) == (CHOOSE e \in cache : e.provider = provider).executor

\* new DefaultExecutor(provider)
DefaultExecutor(provider, oid) ==
    [class |-> "DefaultExecutor", provider |-> provider, oid |-> oid]

\* getExecutor(provider)
getExecutor(provider) ==
    /\ lastProvider' = Some(provider)
    /\ IF Truthy(executorsAt(provider))
       THEN /\ lastExecutor' = executorsAt(provider)
            /\ UNCHANGED <<defaultCache, constructed>>
       ELSE IF ~CacheHas(defaultCache, provider)
       THEN LET e == DefaultExecutor(provider, Len(constructed) + 1)
            IN /\ defaultCache' = defaultCache \cup {[provider |-> provider, executor |-> e]}
               /\ constructed' = Append(constructed, provider)
               /\ lastExecutor' = Some(e)
       ELSE /\ lastExecutor' = Some(CacheGet(defaultCache, provider))
            /\ UNCHANGED <<defaultCache, constructed>>
    /\ UNCHANGED <<bypassVars, mergeVars, agVars>>

GetExecutor == \E provider \in Providers : getExecutor(provider)

NextExec == GetExecutor

SpecExec == Init /\ [][NextExec]_vars

---------------------------------------------------------------------------
(* executors/antigravity.js: AntigravityExecutor *)

\* baseUrls[i] of a JavaScript array: undefined outside 0..length-1
At(list, i) == IF i + 1 \in DOMAIN list THEN Some(list[i + 1]) ELSE None

STREAM_PATH == "/v1internal:streamGenerateContent?alt=sse"
PLAIN_PATH == "/v1internal:generateContent"

\* buildUrl without the "|| baseUrls[0]" fallback
buildUrl_NoFallback(cfg, m, stream, urlIndex) ==
    LET baseUrls == getBaseUrls(cfg)
        index == IF Truthy(urlIndex) THEN urlIndex[1] ELSE 0
        baseUrl == At(baseUrls, index)
        path == IF stream THEN STREAM_PATH ELSE PLAIN_PATH
    IN <<ToStr(baseUrl), path>>

\* buildUrl(model, stream, urlIndex = 0): the template literal `${baseUrl}${path}`
buildUrl(cfg, m, stream, urlIndex) ==
    LET baseUrls == getBaseUrls(cfg)
        index == IF Truthy(urlIndex) THEN urlIndex[1] ELSE 0
        baseUrl == Or(At(baseUrls, index), At(baseUrls, 0))
        path == IF stream THEN STREAM_PATH ELSE PLAIN_PATH
    IN <<ToStr(baseUrl), path>>

\* buildHeaders(credentials, stream = true)
buildHeaders(cfg, credentials, stream) ==
    (IF stream THEN [Accept |-> "text/event-stream"] ELSE <<>>) @@
    [ContentType |-> "application/json",
     Authorization |-> <<"Bearer ", ToStr(credentials.accessToken)>>,
     UserAgent |-> ToStr(Or(cfg.userAgent, Some("antigravity/1.104.0 darwin/arm64")))]

\* body.request?.tools?.length > 0
HasTools(request) ==
    /\ Truthy(Get(request, "tools"))
    /\ Len(Get(request, "tools")[1]) > 0

ValidatedToolConfig == [functionCallingConfig |-> [mode |-> "VALIDATED"]]

\* transformRequest that rewrites toolConfig whether or not tools are present
transformRequest_AlwaysValidated(m, b, stream, credentials, rnd) ==
    LET projectId == Or(credentials.projectId, Some(rnd.projectId))
        request == IF Truthy(Get(b, "request")) THEN b.request[1] ELSE <<>>
        outRequest ==
            [sessionId |-> Or(Get(request, "sessionId"), Some(rnd.sessionId)),
             safetySettings |-> None,
             toolConfig |-> Some(ValidatedToolConfig)] @@ request
    IN [project |-> projectId,
        model |-> Some(m),
        userAgent |-> Some("antigravity"),
        requestType |-> Some("agent"),
        requestId |-> Some(<<"agent-", rnd.uuid>>),
        request |-> Some(outRequest)] @@ b

\* transformRequest(model, body, stream, credentials); rnd is what the random
\* source yields for generateProjectId, generateSessionId and randomUUID
transformRequest(m, b, stream, credentials, rnd) ==
    LET projectId == Or(credentials.projectId, Some(rnd.projectId))
        request == IF Truthy(Get(b, "request")) THEN b.request[1] ELSE <<>>
        outRequest ==
            [sessionId |-> Or(Get(request, "sessionId"), Some(rnd.sessionId)),
             safetySettings |-> None,
             toolConfig |-> IF HasTools(request) THEN Some(ValidatedToolConfig)
                            ELSE Get(request, "toolConfig")] @@ request
    IN [project |-> projectId,
        model |-> Some(m),
        userAgent |-> Some("antigravity"),
        requestType |-> Some("agent"),
        requestId |-> Some(<<"agent-", rnd.uuid>>),
        request |-> Some(outRequest)] @@ b

\* the form posted to OAUTH_ENDPOINTS.google.token
TokenForm(cfg, credentials) ==
    [grant_type |-> "refresh_token",
     refresh_token |-> ToStr(credentials.refreshToken),
     client_id |-> cfg.clientId,
     client_secret |-> cfg.clientSecret]

\* the object refreshCredentials returns on success
RefreshedCredentials(credentials, tokens) ==
    [accessToken |-> tokens.access_token,
     refreshToken |-> Or(tokens.refresh_token, credentials.refreshToken),
     expiresIn |-> tokens.expires_in,
     projectId |-> credentials.projectId]

\* how a refreshCredentials call ends: the promise resolves with a value
\* (None is null) or rejects
Settled(call, outcome, value, cause) ==
    [call EXCEPT !.pc = "done", !.outcome = outcome, !.value = value, !.cause = cause]

\* the token request a call issues
TokenRequest(i) ==
    [call |-> i,
     n |-> Cardinality({r \in tokenRequests : r.call = i}) + 1,
     form |-> TokenForm(config, creds)]

\* RefreshStart without the refresh-token check
RefreshStart_NoTokenCheck(i) ==
    /\ calls[i].pc = "idle"
    /\ tokenRequests' = tokenRequests \cup {TokenRequest(i)}
    /\ calls' = [calls EXCEPT ![i].pc = "fetch", ![i].credentials = Some(creds)]
    /\ UNCHANGED <<config, creds, reqBody, lastCall>>
    /\ UNCHANGED <<bypassVars, mergeVars, defaultCache, constructed, lastProvider, lastExecutor>>

\* RefreshStart that joins a refresh already in flight instead of issuing
\* its own token request
RefreshStart_SingleFlight(i) ==
    /\ calls[i].pc = "idle"
    /\ IF ~Truthy(creds.refreshToken)
       THEN /\ calls' = [calls EXCEPT ![i] =
                            Settled([@ EXCEPT !.credentials = Some(creds)],
                                    "resolved", None, "noRefreshToken")]
            /\ UNCHANGED tokenRequests
       ELSE /\ tokenRequests' =
                   IF \E j \in 1..MaxCalls : calls[j].pc \in {"fetch", "json"}
                   THEN tokenRequests
                   ELSE tokenRequests \cup {TokenRequest(i)}
            /\ calls' = [calls EXCEPT ![i].pc = "fetch", ![i].credentials = Some(creds)]
    /\ UNCHANGED <<config, creds, reqBody, lastCall>>
    /\ UNCHANGED <<bypassVars, mergeVars, defaultCache, constructed, lastProvider, lastExecutor>>

\* refreshCredentials up to its first suspension point: the refresh-token
\* check, then the token request
RefreshStart(i) ==
    /\ calls[i].pc = "idle"
    /\ IF ~Truthy(creds.refreshToken)
       THEN /\ calls' = [calls EXCEPT ![i] =
                            Settled([@ EXCEPT !.credentials = Some(creds)],
                                    "resolved", None, "noRefreshToken")]
            /\ UNCHANGED tokenRequests
       ELSE /\ tokenRequests' = tokenRequests \cup {TokenRequest(i)}
            /\ calls' = [calls EXCEPT ![i].pc = "fetch", ![i].credentials = Some(creds)]
    /\ UNCHANGED <<config, creds, reqBody, lastCall>>
    /\ UNCHANGED <<bypassVars, mergeVars, defaultCache, constructed, lastProvider, lastExecutor>>

\* FetchSettles without the try/catch: a network error rejects the call
FetchSettles_Uncaught(i) ==
    /\ calls[i].pc = "fetch"
    /\ \E r \in {"throws", "notOk", "ok"} :
          calls' = [calls EXCEPT ![i] =
                       CASE r = "throws" -> Settled(@, "rejected", None, "network")
                         [] r = "notOk" -> Settled(@, "resolved", None, "status")
                         [] OTHER -> [@ EXCEPT !.pc = "json"]]
    /\ UNCHANGED <<config, creds, reqBody, tokenRequests, lastCall>>
    /\ UNCHANGED <<bypassVars, mergeVars, defaultCache, constructed, lastProvider, lastExecutor>>

\* the token request settles: fetch throws (caught: null), or the response
\* is not ok (null), or it is ok and the body is read next
FetchSettles(i) ==
    /\ calls[i].pc = "fetch"
    /\ \E r \in {"throws", "notOk", "ok"} :
          calls' = [calls EXCEPT ![i] =
                       CASE r = "throws" -> Settled(@, "resolved", None, "network")
                         [] r = "notOk" -> Settled(@, "resolved", None, "status")
                         [] OTHER -> [@ EXCEPT !.pc = "json"]]
    /\ UNCHANGED <<config, creds, reqBody, tokenRequests, lastCall>>
    /\ UNCHANGED <<bypassVars, mergeVars, defaultCache, constructed, lastProvider, lastExecutor>>

\* response.json() settles: it throws (caught: null), or yields the tokens
\* and the call returns the refreshed credential set
JsonSettles(i) ==
    /\ calls[i].pc = "json"
    /\ \/ calls' = [calls EXCEPT ![i] = Settled(@, "resolved", None, "body")]
       \/ \E tokens \in TokenResponses :
             calls' = [calls EXCEPT ![i] =
                          Settled([@ EXCEPT !.tokens = Some(tokens)], "resolved",
                                  Some(RefreshedCredentials(creds, tokens)), "ok")]
    /\ UNCHANGED <<config, creds, reqBody, tokenRequests, lastCall>>
    /\ UNCHANGED <<bypassVars, mergeVars, defaultCache, constructed, lastProvider, lastExecutor>>

\* a caller invokes buildUrl
BuildUrl ==
    /\ \E stream \in BOOLEAN, urlIndex \in UrlIndexes, m \in Models :
          lastCall' = Some([op |-> "buildUrl",
                            args |-> [model |-> m, stream |-> stream, urlIndex |-> urlIndex],
                            threw |-> FALSE,
                            result |-> buildUrl(config, m, stream, urlIndex)])
    /\ UNCHANGED <<config, creds, reqBody, calls, tokenRequests>>
    /\ UNCHANGED <<bypassVars, mergeVars, defaultCache, constructed, lastProvider, lastExecutor>>

\* a caller invokes buildHeaders
BuildHeaders ==
    /\ \E stream \in BOOLEAN :
          lastCall' = Some([op |-> "buildHeaders",
                            args |-> [stream |-> stream],
                            threw |-> FALSE,
                            result |-> buildHeaders(config, creds, stream)])
    /\ UNCHANGED <<config, creds, reqBody, calls, tokenRequests>>
    /\ UNCHANGED <<bypassVars, mergeVars, defaultCache, constructed, lastProvider, lastExecutor>>

\* TransformRequest that writes the outbound fields into the caller's body
\* instead of building a new object
TransformRequest_InPlace ==
    /\ \E stream \in BOOLEAN, m \in Models, gp \in GeneratedProjectIds,
          gs \in GeneratedSessionIds, u \in GeneratedUuids :
          LET rnd == [projectId |-> gp, sessionId |-> gs, uuid |-> u]
          IN /\ lastCall' = Some([op |-> "transformRequest",
                                  args |-> [model |-> m, stream |-> stream, rnd |-> rnd],
                                  threw |-> FALSE,
                                  result |-> transformRequest(m, reqBody, stream, creds, rnd)])
             /\ reqBody' = transformRequest(m, reqBody, stream, creds, rnd)
    /\ UNCHANGED <<config, creds, calls, tokenRequests>>
    /\ UNCHANGED <<bypassVars, mergeVars, defaultCache, constructed, lastProvider, lastExecutor>>

\* a caller invokes transformRequest with its body and credential set
TransformRequest ==
    /\ \E stream \in BOOLEAN, m \in Models, gp \in GeneratedProjectIds,
          gs \in GeneratedSessionIds, u \in GeneratedUuids :
          LET rnd == [projectId |-> gp, sessionId |-> gs, uuid |-> u]
          IN lastCall' = Some([op |-> "transformRequest",
                               args |-> [model |-> m, stream |-> stream, rnd |-> rnd],
                               threw |-> FALSE,
                               result |-> transformRequest(m, reqBody, stream, creds, rnd)])
    /\ UNCHANGED <<config, creds, reqBody, calls, tokenRequests>>
    /\ UNCHANGED <<bypassVars, mergeVars, defaultCache, constructed, lastProvider, lastExecutor>>

\* the executor configurations and caller inputs the calls are checked on
AgScenarios ==
    { sc \in [config : Configs, creds : CredentialSets, body : AgBodies] :
         \/ /\ sc.config.baseUrls = Some(<<"u1", "u2">>)
            /\ Truthy(Get(sc.body, "request")) /\ HasTools(sc.body.request[1])
         \/ /\ sc.config.baseUrls = Some(<<>>)
            /\ Truthy(Get(sc.body, "request")) /\ ~HasTools(sc.body.request[1])
         \/ /\ Truthy(sc.config.baseUrl)
            /\ Truthy(Get(sc.body, "project"))
         \/ /\ sc.config.baseUrls = None /\ sc.config.baseUrl = None
            /\ DOMAIN sc.body = {"extra"} }

InitAntigravity ==
    /\ InitBypass
    /\ InitMerge
    /\ InitExec
    /\ \E sc \in AgScenarios :
          /\ config = sc.config
          /\ creds = sc.creds
          /\ reqBody = sc.body
    /\ calls = [i \in 1..MaxCalls |-> IdleCall]
    /\ tokenRequests = {}
    /\ lastCall = None

NextAntigravity ==
    \/ \E i \in 1..MaxCalls : RefreshStart(i)
    \/ \E i \in 1..MaxCalls : FetchSettles(i)
    \/ \E i \in 1..MaxCalls : JsonSettles(i)
    \/ BuildUrl
    \/ BuildHeaders
    \/ TransformRequest

SpecAntigravity == InitAntigravity /\ [][NextAntigravity]_vars

---------------------------------------------------------------------------
(* Properties *)

RECURSIVE AllOut(_)
\* the events returned by the translator calls of a log, in call order
AllOut(l) == IF Len(l) = 0 THEN <<>> ELSE Head(l).out \o AllOut(Tail(l))

TypesOf(evs) == [k \in 1..Len(evs) |-> TypeOf(evs[k])]

Translated == pc \in {"flushed", "returned"} /\ Len(log) > 0

\* C1: for a Claude target the synthetic bypass response translates, with the
\* flush, to exactly message_start, content_block_start(0),
\* content_block_delta(text), content_block_stop(0), message_delta(mapped stop
\* reason, usage), message_stop; the flush returns nothing.
C1_SixEvents ==
    (Translated /\ sourceFormat = CLAUDE) =>
        LET ev == AllOut(log)
        IN /\ TypesOf(ev) = << "message_start", "content_block_start",
                               "content_block_delta", "content_block_stop",
                               "message_delta", "message_stop" >>
           /\ ev[2].index = 0
           /\ ev[3].delta.text = BypassText
           /\ ev[4].index = 0
           /\ ev[5].delta.stop_reason = "end_turn"
           /\ ev[5].usage = Some([input_tokens |-> 1, output_tokens |-> 1])
           /\ flushed = <<>>

C1_Witness ==
    /\ pc = "returned"
    /\ sourceFormat = CLAUDE
    /\ mode = "stream"
    /\ Len(result[1].response.body) = 7

IsBlockStart(e, i) == TypeOf(e) = "content_block_start" /\ e.index = i

IsBlockStop(e, i) == TypeOf(e) = "content_block_stop" /\ e.index = i

\* C2: after the flush every content_block_start has exactly one later
\* content_block_stop of its index, every content_block_stop has an earlier
\* content_block_start, and the close comes with the finish-reason delta when
\* there was one and with the flush otherwise.
C2_BalancedBlocks ==
    Translated =>
        LET ev == AllOut(log)
            hasFinish == \E k \in 1..Len(openaiChunks) :
                            /\ ~Malformed(openaiChunks[k])
                            /\ openaiChunks[k].choices[1].finish_reason # None
        IN \A i \in 0..1 :
              /\ \A k \in 1..Len(ev) : IsBlockStart(ev[k], i) =>
                    Cardinality({ j \in (k + 1)..Len(ev) : IsBlockStop(ev[j], i) }) = 1
              /\ \A j \in 1..Len(ev) : IsBlockStop(ev[j], i) =>
                    Cardinality({ k \in 1..(j - 1) : IsBlockStart(ev[k], i) }) = 1
              /\ (\E k \in 1..Len(ev) : IsBlockStart(ev[k], i)) =>
                    ((\E j \in 1..Len(flushed) : IsBlockStop(flushed[j], i)) <=> ~hasFinish)

C2_Witness ==
    /\ pc = "returned"
    /\ sourceFormat = CLAUDE
    /\ \E j \in 1..Len(flushed) : IsBlockStop(flushed[j], 0)
    /\ Len(openaiChunks) >= 3

\* the finish reason an event list ends with
ClosesWithStop(evs, target) ==
    /\ Len(evs) > 0
    /\ CASE target = CLAUDE ->
              /\ TypesOf(evs) = <<"content_block_stop", "message_delta", "message_stop">>
              /\ evs[2].delta.stop_reason = ClaudeStopReason("stop")
         [] target = GEMINI ->
              /\ Len(evs) = 1
              /\ evs[1].candidates[1].finishReason = Some(GeminiFinishReason("stop"))
         [] OTHER ->
              /\ Len(evs) = 1
              /\ evs[1].choices[1].finish_reason = Some("stop")

\* C3: a flush of a state that received a finish-reason delta, or that was
\* flushed before, returns nothing and leaves the state as it is; the first
\* flush of a stream that never carried a finish reason returns the close and
\* the terminal events with the stop reason "stop".
C3_FlushIdempotent ==
    /\ (state # None /\ (state[1].finished \/ pc \in {"flushed", "returned"})) =>
          translateResponse(sourceFormat, None, state[1]) = [out |-> <<>>, state |-> state[1]]
    /\ Translated =>
          IF \E k \in 1..Len(openaiChunks) :
                /\ ~Malformed(openaiChunks[k])
                /\ openaiChunks[k].choices[1].finish_reason # None
          THEN flushed = <<>>
          ELSE ClosesWithStop(flushed, sourceFormat)

C3_Witness ==
    /\ pc = "returned"
    /\ state[1].finished
    /\ flushed # <<>>
    /\ sourceFormat = GEMINI

\* C4: a response that is translated calls initState once, before any
\* translateResponse; translates chunk 1, 2, ... in that order on the state
\* initState returned; flushes once, after the last chunk and as its last
\* call; and its state object was not used by an earlier response.
C4_PerStreamProtocol ==
    /\ (pc = "returned" /\ result # None /\ result[1] # NullResult
        /\ ~(mode = "nonstream" /\ sourceFormat = OPENAI)) => Translated
    /\ (pc \in {"loop", "flushed"} \/ Translated) =>
          /\ Len(log) > 0
          /\ log[1].op = "initState"
          /\ state # None /\ state[1].sid = log[1].sid
          /\ log[1].sid \notin usedStates
          /\ \A k \in 2..Len(log) :
                /\ log[k].op = "translateResponse"
                /\ log[k].sid = log[1].sid
                /\ log[k].arg = (IF k <= Len(openaiChunks) + 1 THEN k - 1 ELSE 0)
          /\ Len(log) = idx + (IF pc = "loop" THEN 0 ELSE 1)
          /\ pc # "loop" => Len(log) = Len(openaiChunks) + 2

C4_Witness ==
    /\ pc = "returned"
    /\ reqNo = 2
    /\ usedStates # {}
    /\ Len(log) = 4
    /\ mode = "nonstream"

RECURSIVE ChunkText(_)
\* the concatenation of the content deltas of a chunk list
ChunkText(cs) ==
    IF Len(cs) = 0 THEN <<>>
    ELSE (IF Malformed(Head(cs)) THEN <<>> ELSE Head(cs).choices[1].delta.content)
         \o ChunkText(Tail(cs))

RECURSIVE PartsText(_)
PartsText(parts) ==
    IF Len(parts) = 0 THEN <<>> ELSE Head(parts).text \o PartsText(Tail(parts))

\* the text content of a final response object
ContentOf(r) ==
    IF "choices" \in DOMAIN r THEN r.choices[1].message.content
    ELSE IF "candidates" \in DOMAIN r THEN PartsText(r.candidates[1].content.parts)
    ELSE IF "content" \in DOMAIN r THEN PartsText(r.content)
    ELSE <<>>

\* C5: the non-streaming response has as content the concatenation of every
\* content delta, in order.
C5_AggregateParity ==
    (pc = "returned" /\ mode = "nonstream" /\ result[1] # NullResult) =>
        ContentOf(result[1].response.body) =
            ChunkText(createOpenAIStreamingChunks(createOpenAIResponse(model, now)))

\* C6: for a Claude target the merge returns the message of the message_start
\* event, with the usage of the message_delta event when that carries one,
\* and never the message_stop event; for any other target it returns the last
\* event of the list.
C6_MergeRebuildsMessage ==
    (merged # None /\ Len(chunks.list) > 0) =>
        LET start == Find(chunks.list, "message_start")
            delta == Find(chunks.list, "message_delta")
        IN IF chunks.format = CLAUDE
           THEN /\ merged[1] # MessageStop
                /\ start # None =>
                     merged[1] = IF Truthy(Field(delta, "usage"))
                                 THEN [start[1].message EXCEPT !.usage = delta[1].usage]
                                 ELSE start[1].message
           ELSE merged[1] = chunks.list[Len(chunks.list)]

\* C7: the merge of an empty list, or of a Claude list without message_start,
\* returns a synthesized response object, never an event of the list.
C7_MergeDegenerate ==
    (merged # None
     /\ (Len(chunks.list) = 0
         \/ (chunks.format = CLAUDE /\ Find(chunks.list, "message_start") = None))) =>
        /\ merged[1] = createOpenAIResponse("unknown", chunks.now)
        /\ \A k \in 1..Len(chunks.list) : merged[1] # chunks.list[k]

\* C8: the streaming body is the frames of the events of the per-chunk calls,
\* then of the flush, then the end-of-stream sentinel, once, and only for a
\* target protocol that defines one.
C8_BodyFraming ==
    (pc = "returned" /\ mode = "stream") =>
        LET ev == AllOut(log)
        IN result[1].response.body =
              [k \in 1..Len(ev) |-> formatSSE(ev[k], sourceFormat)]
              \o (IF HasSentinel(sourceFormat) THEN <<DONE>> ELSE <<>>)

RECURSIVE WithoutMalformed(_)
WithoutMalformed(cs) ==
    IF Len(cs) = 0 THEN <<>>
    ELSE (IF Malformed(Head(cs)) THEN <<>> ELSE <<Head(cs)>>) \o WithoutMalformed(Tail(cs))

RECURSIVE TranslateAll(_, _, _)
\* the events of translating cs in order from state st, then flushing
TranslateAll(target, cs, st) ==
    IF Len(cs) = 0 THEN translateResponse(target, None, st).out
    ELSE LET r == translateResponse(target, Some(Head(cs)), st)
         IN r.out \o TranslateAll(target, Tail(cs), r.state)

\* C9: the call for a malformed delta returns no event, and the events of the
\* whole stream, flush included, are those of the stream without its
\* malformed deltas.
C9_MalformedIgnored ==
    /\ \A k \in 2..Len(log) :
          (log[k].arg > 0 /\ Malformed(openaiChunks[log[k].arg])) => log[k].out = <<>>
    /\ Translated =>
          AllOut(log) = TranslateAll(sourceFormat, WithoutMalformed(openaiChunks),
                                     [initState(sourceFormat, state[1].sid)
                                        EXCEPT !.model = model])

C9_Witness ==
    /\ pc = "returned"
    /\ sourceFormat = CLAUDE
    /\ Len(openaiChunks) = 4
    /\ Malformed(openaiChunks[2])
    /\ Len(AllOut(log)) = 7

\* C10: a provider that is none of the named backends gets the
\* DefaultExecutor made for it, one object per provider however often it is
\* looked up; a named provider gets its pre-built executor and is never
\* cached.
C10_ExecutorRegistry ==
    /\ \A e \in defaultCache :
          /\ e.provider \notin DOMAIN executors
          /\ e.executor.class = "DefaultExecutor"
          /\ e.executor.provider = e.provider
          /\ \A f \in defaultCache :
                (f.provider = e.provider \/ f.executor = e.executor) => f = e
    /\ \A i, j \in 1..Len(constructed) : constructed[i] = constructed[j] => i = j
    /\ lastProvider # None =>
          IF lastProvider[1] \in DOMAIN executors
          THEN lastExecutor = Some(executors[lastProvider[1]])
          ELSE /\ CacheHas(defaultCache, lastProvider[1])
               /\ lastExecutor = Some(CacheGet(defaultCache, lastProvider[1]))

\* calls of refreshCredentials that have been made
Started == {i \in 1..MaxCalls : calls[i].pc # "idle"}

\* token requests issued by call i
RequestsOf(i) == {r \in tokenRequests : r.call = i}

\* C11: a refreshCredentials call given a credential set without a refresh
\* token has returned null and has issued no request to the token endpoint.
C11_NoRefreshTokenNoRequest ==
    \A i \in Started :
        (calls[i].credentials # None /\ ~Truthy(calls[i].credentials[1].refreshToken)) =>
            /\ calls[i].pc = "done"
            /\ calls[i].outcome = "resolved"
            /\ calls[i].value = None
            /\ RequestsOf(i) = {}

C11_Witness ==
    \E i \in 1..MaxCalls :
        /\ calls[i].pc = "done"
        /\ calls[i].cause = "noRefreshToken"
        /\ ~Truthy(creds.refreshToken)

\* C12: a refresh that fails (the token request throws, the response is not
\* ok, or reading the body fails) resolves to null and never rejects, and the
\* credential set the call was given is the caller's set, unchanged.
C12_FailedRefreshIsNull ==
    \A i \in Started :
        /\ calls[i].outcome # "rejected"
        /\ calls[i].credentials = Some(creds)
        /\ (calls[i].pc = "done" /\ calls[i].cause \in {"network", "status", "body"}) =>
              /\ calls[i].outcome = "resolved"
              /\ calls[i].value = None

C12_Witness ==
    /\ \E i \in 1..MaxCalls : calls[i].pc = "done" /\ calls[i].cause = "network"
    /\ \E i \in 1..MaxCalls : calls[i].pc = "done" /\ calls[i].cause \in {"status", "body"}

\* calls of refreshCredentials that returned a refreshed credential set
Refreshed == {i \in Started : calls[i].pc = "done" /\ calls[i].cause = "ok"}

\* C13: a successful refresh returns a credential set whose accessToken and
\* expiresIn are the response's, and which carries forward from the input set
\* the refreshToken (when the response has none), the projectId and the
\* sessionId.
C13_CarriesForward ==
    \A i \in Refreshed :
        LET new == calls[i].value[1]
            old == calls[i].credentials[1]
            tokens == calls[i].tokens[1]
        IN /\ Get(new, "accessToken") = tokens.access_token
           /\ Get(new, "expiresIn") = tokens.expires_in
           /\ Get(new, "refreshToken") =
                 (IF tokens.refresh_token # None THEN tokens.refresh_token
                  ELSE old.refreshToken)
           /\ Get(new, "projectId") = old.projectId
           /\ Get(new, "sessionId") = old.sessionId

\* C14: every call that passed the refresh-token check has issued exactly one
\* token request and every other call none, so N concurrent calls issue N
\* requests; and a step of one call never changes another call's position or
\* result.
C14_OneRequestPerCall ==
    /\ [](\A i \in 1..MaxCalls :
             Cardinality(RequestsOf(i)) =
                 (IF i \in Started /\ creds.refreshToken # None THEN 1 ELSE 0))
    /\ [][\A i, j \in 1..MaxCalls :
             (i # j /\ calls'[i] # calls[i]) => calls'[j] = calls[j]]_vars

C14_Witness ==
    \E i, j \in 1..MaxCalls :
        /\ i # j
        /\ calls[i].pc = "json"
        /\ calls[j].pc = "fetch"
        /\ Cardinality(RequestsOf(i)) = 1
        /\ Cardinality(RequestsOf(j)) = 1

\* the latest call was a call of method op
Called(op) == lastCall # None /\ lastCall[1].op = op

\* C15: with a non-empty pool, buildUrl returns the pool entry at urlIndex
\* when 0 <= urlIndex < pool length and the pool's first entry otherwise
\* (past the end, negative, omitted), followed by the streaming path when
\* stream is true and the non-streaming path when it is false.
C15_BuildUrlFallback ==
    Called("buildUrl") =>
        LET pool == getBaseUrls(config)
            urlIndex == lastCall[1].args.urlIndex
            inRange == urlIndex # None /\ urlIndex[1] >= 0 /\ urlIndex[1] < Len(pool)
            base == IF inRange THEN pool[urlIndex[1] + 1] ELSE pool[1]
            path == IF lastCall[1].args.stream
                    THEN "/v1internal:streamGenerateContent?alt=sse"
                    ELSE "/v1internal:generateContent"
        IN pool # <<>> => lastCall[1].result = <<base, path>>

C15_Witness ==
    /\ Called("buildUrl")
    /\ Len(getBaseUrls(config)) = 2
    /\ lastCall[1].args.urlIndex = Some(2)
    /\ ~lastCall[1].args.stream
    /\ lastCall[1].result = <<"u1", "/v1internal:generateContent">>

\* C16: with a missing or empty pool, buildUrl signals an error instead of
\* returning a URL.
C16_EmptyPoolIsFatal ==
    (Called("buildUrl") /\ getBaseUrls(config) = <<>>) => lastCall[1].threw

\* body.request of the caller's body, the empty object when there is none
RequestOf(b) == IF Get(b, "request") # None THEN b.request[1] ELSE <<>>

\* C17: the outbound request carries the credential set's project and session
\* identifiers when the set has them and a generated one only for an
\* identifier the set lacks; both are always present.
C17_IdsFromCredentials ==
    Called("transformRequest") =>
        LET out == lastCall[1].result
            rnd == lastCall[1].args.rnd
        IN /\ out.project =
                 (IF creds.projectId # None THEN creds.projectId ELSE Some(rnd.projectId))
           /\ out.request[1].sessionId =
                 (IF creds.sessionId # None THEN creds.sessionId ELSE Some(rnd.sessionId))
           /\ out.project # None
           /\ out.request[1].sessionId # None

\* the fields of the outbound request that depend on tools: toolConfig is
\* the VALIDATED configuration when request.tools is a non-empty list and the
\* caller's toolConfig otherwise, and safetySettings is stripped
ToolFieldsRewritten(b, out) ==
    LET req == RequestOf(b)
        hasTools == Get(req, "tools") # None /\ Len(Get(req, "tools")[1]) > 0
    IN /\ Get(out.request[1], "toolConfig") =
             (IF hasTools THEN Some([functionCallingConfig |-> [mode |-> "VALIDATED"]])
              ELSE Get(req, "toolConfig"))
       /\ Get(out.request[1], "safetySettings") = None

\* the fields of body.request other than toolConfig and safetySettings are
\* the caller's
RequestFieldsKept(b, out) ==
    \A k \in DOMAIN RequestOf(b) \ {"toolConfig", "safetySettings"} :
        Get(out.request[1], k) = RequestOf(b)[k]

\* C18, every field: toolConfig is rewritten only when tools are present,
\* safetySettings is stripped, and every other field of body and of
\* body.request is preserved.
C18_EveryOtherFieldKept ==
    Called("transformRequest") =>
        LET out == lastCall[1].result
        IN /\ ToolFieldsRewritten(reqBody, out)
           /\ RequestFieldsKept(reqBody, out)
           /\ \A k \in DOMAIN reqBody \ {"request"} : Get(out, k) = reqBody[k]

\* the top-level fields transformRequest sets itself
EnvelopeFields == {"project", "model", "userAgent", "requestType", "requestId"}

\* C18, envelope fields excepted: toolConfig is rewritten only when tools are present,
\* safetySettings is stripped, every other field of body.request is
\* preserved, and every field of body other than request and the envelope
\* fields transformRequest sets (project, model, userAgent, requestType,
\* requestId) is preserved.
C18_OtherFieldsKept ==
    Called("transformRequest") =>
        LET out == lastCall[1].result
        IN /\ ToolFieldsRewritten(reqBody, out)
           /\ RequestFieldsKept(reqBody, out)
           /\ \A k \in DOMAIN reqBody \ ({"request"} \cup EnvelopeFields) :
                 Get(out, k) = reqBody[k]

C18_Witness ==
    /\ Called("transformRequest")
    /\ Get(RequestOf(reqBody), "tools") = Some(<<>>)
    /\ Get(RequestOf(reqBody), "toolConfig") = Some(CallerToolConfig)
    /\ Get(lastCall[1].result.request[1], "toolConfig") = Some(CallerToolConfig)
    /\ Get(reqBody, "extra") = Some("x")
    /\ Get(lastCall[1].result, "extra") = Some("x")

\* C19: no step of buildUrl, buildHeaders, transformRequest or
\* refreshCredentials, in any interleaving, changes the executor's
\* configuration, the caller's request body or the caller's credential set,
\* and every refreshCredentials call in flight still sees the credential set
\* it was given.
C19_Stateless ==
    /\ [][config' = config /\ creds' = creds /\ reqBody' = reqBody]_vars
    /\ [](\A i \in Started : calls[i].credentials = Some(creds))

C19_Witness ==
    /\ Called("transformRequest")
    /\ \E i, j \in 1..MaxCalls :
          /\ calls[i].pc = "done" /\ calls[i].cause = "ok"
          /\ calls[j].pc = "fetch"
    /\ "project" \notin DOMAIN reqBody

\* the text of the messages with role "user", in order
UserWords(messages) ==
    JoinTexts([i \in 1..Len(SelectSeq(messages, LAMBDA msg : msg.role = "user")) |->
                  getText(SelectSeq(messages, LAMBDA msg : msg.role = "user")[i].content)])

\* the bypass case of a request body: a non-empty message list whose first
\* message's text is exactly "Warmup" or whose user text contains a
\* configured skip pattern
IsBypassCase(b) ==
    /\ Len(b.messages) > 0
    /\ \/ getText(b.messages[1].content) = <<"Warmup">>
       \/ \E k \in DOMAIN SKIP_PATTERNS : Includes(UserWords(b.messages), SKIP_PATTERNS[k])

\* C20: handleBypassRequest returns a synthetic response exactly in the
\* bypass case; otherwise it returns null at once and translates nothing;
\* and in the bypass case it takes the streaming path unless body.stream is
\* exactly false.
C20_BypassExactly ==
    body # None =>
        LET b == body[1]
        IN IF IsBypassCase(b)
           THEN /\ mode = (IF b.stream = Some(FALSE) THEN "nonstream" ELSE "stream")
                /\ pc = "returned" =>
                      /\ result # None
                      /\ "null" \notin DOMAIN result[1]
                      /\ (result[1].response.headers.ContentType = "text/event-stream")
                            <=> (b.stream # Some(FALSE))
           ELSE /\ pc = "returned"
                /\ result = Some(NullResult)
                /\ mode = "none"
                /\ log = <<>>
                /\ translatedChunks = <<>>
                /\ state = None

C20_Witness ==
    /\ pc = "returned"
    /\ body # None
    /\ Len(body[1].messages) = 2
    /\ body[1].messages[1].role = "system"
    /\ body[1].messages[2].content = StringContent(<<"a", "skip", "pattern">>)
    /\ body[1].stream = None
    /\ result # None
    /\ "null" \notin DOMAIN result[1]
    /\ mode = "stream"

===========================================================================
